---- MODULE Spec2Model ----
(***************************************************************************)
(* State-machine model of server/src/scripts/visual_search.py: main(),    *)
(* which reads sys.argv, calls                                             *)
(* visual_search(image_path, template_path, confidence_threshold, method), *)
(* prints the result and exits.                                            *)
(*                                                                         *)
(* Scores are fixed-point numbers: a score s stands for s / Scale.  One    *)
(* ten-thousandth is Scale \div Decimals = 5 units, so no score lies       *)
(* half-way between two 4-decimal values and round(c, 4) has no ties.      *)
(* Pixel contents are abstracted: what cv2.imread returns is the size of   *)
(* the image, what cv2.matchTemplate returns is a map of window scores.    *)
(***************************************************************************)
EXTENDS Integers, Sequences, FiniteSets

\* ------------------------------------------------------------------ bounds
\* A scan's score map has every window at the background score except for
\* some, at most MaxPeaks less the above-background detections pooled before.
MaxPeaks == 2
\* A scan with more than MaxPeakSites windows has its above-background scores
\* at the first or the last window of the scan only.
MaxPeakSites == 6

\* ------------------------------------------------------- program constants
\* round(confidence, 4): four decimals.
Decimals == 10000
\* len(all_detections) > 1000
MaxDetections == 1000

Scale == Decimals * 5

\* ------------------------------------------------------------ input domains
\* sys.argv[3]: the texts of -0.00002, 0, 0.70004, 1 and 1.00002, and a text
\* that is no number
ThresholdArgs == {"-0.00002", "0", "0.70004", "1", "1.00002", "abc"}

\* float(text) raises ValueError
FloatRaises(text) == text \notin {"-0.00002", "0", "0.70004", "1", "1.00002"}

\* float(text), in units of 1 / Scale
Float(text) ==
    CASE text = "-0.00002" -> 0 - 1
      [] text = "0" -> 0
      [] text = "0.70004" -> 35002
      [] text = "1" -> Scale
      [] text = "1.00002" -> Scale + 1

\* -0.00002, 0, 0.70004, 1, 1.00002
Thresholds == {Float(text) : text \in {a \in ThresholdArgs : ~FloatRaises(a)}}
\* window scores above the background: 0.70004 and 1.0
PeakLevels == {35002, Scale}
Methods == {"cv2.TM_CCOEFF_NORMED", "cv2.TM_SQDIFF_NORMED", "unrecognized"}
\* method = sys.argv[4] if len(sys.argv) > 4 else 'cv2.TM_CCOEFF_NORMED'
DefaultMethod == "cv2.TM_CCOEFF_NORMED"
\* sys.argv: the script alone, without a threshold, without a method, complete
ArgVectors ==
    {<<"visual_search.py">>, <<"visual_search.py", "image_path", "template_path">>}
    \cup {<<"visual_search.py", "image_path", "template_path", t>> :
              t \in ThresholdArgs}
    \cup {<<"visual_search.py", "image_path", "template_path", t, m>> :
              t \in ThresholdArgs, m \in Methods}
\* <<width, height>> of images and of templates: squares and bars, so that a
\* template may be wider only, taller only or both, may fit while its quarter
\* turn does not, and may fit with room in both directions.
Sizes == {<<2, 1>>, <<2, 2>>, <<3, 1>>, <<1, 3>>, <<3, 3>>}
\* A file on disk: missing, present but not decodable, or a decodable image.
Files == {[status |-> "missing", width |-> 0, height |-> 0],
          [status |-> "unreadable", width |-> 0, height |-> 0]}
         \cup {[status |-> "ok", width |-> s[1], height |-> s[2]] : s \in Sizes}
\* The files image_path and template_path name: any two of Files, or a 9x5
\* image with a 5x5 template, whose windows at x = 0 and x = 4 are exactly
\* 0.8 * max(5, 5) apart.
FilePairs ==
    (Files \X Files)
    \cup {<<[status |-> "ok", width |-> 9, height |-> 5],
            [status |-> "ok", width |-> 5, height |-> 5]>>}
\* A 16x16 image with a 1x1 template: 256 windows per orientation, 1024 over
\* the four, more than the cap of 1000.
LargePairs ==
    {<<[status |-> "ok", width |-> 16, height |-> 16],
       [status |-> "ok", width |-> 1, height |-> 1]>>}

VARIABLES
    argv,                           \* sys.argv
    stdout, exit_code,              \* what main printed; -1 while running
    image_file, template_file,      \* what image_path / template_path name
    confidence_threshold, method,   \* the other two arguments
    pc,                             \* position in main and visual_search
    img_width, img_height, template_width, template_height,
    match_method,
    rotation,                       \* index into Rotations of the next scan
    rotated_width, rotated_height,
    raw_result,                     \* what cv2.matchTemplate returned last
    result,                         \* score map of the last scan
    all_detections, matches, filtered_matches,
    response

vars == <<argv, stdout, exit_code,
          image_file, template_file, confidence_threshold, method, pc,
          img_width, img_height, template_width, template_height,
          match_method, rotation, rotated_width, rotated_height,
          raw_result, result,
          all_detections, matches, filtered_matches, response>>

inputs == <<argv, image_file, template_file, confidence_threshold, method>>
cli == <<stdout, exit_code>>
locals == <<img_width, img_height, template_width, template_height,
            match_method, rotation, rotated_width, rotated_height,
            raw_result, result,
            all_detections, matches, filtered_matches>>

\* --------------------------------------------------------------- responses
Pending == [success |-> FALSE, error |-> "pending", has_matches |-> FALSE,
            matches |-> <<>>, totalMatches |-> 0]

\* {"success": False, "error": ...}: no "matches" key
Failure(kind) == [success |-> FALSE, error |-> kind, has_matches |-> FALSE,
                  matches |-> <<>>, totalMatches |-> 0]

SuccessAlt(ms) == [success |-> Len(ms) > 0,
                   error |-> IF Len(ms) > 0 THEN "none" ELSE "no_matches",
                   has_matches |-> Len(ms) > 0,
                   matches |-> ms, totalMatches |-> Len(ms)]

\* {"success": True, "matches": filtered_matches, "totalMatches": len(...)}
Success(ms) == [success |-> TRUE, error |-> "none", has_matches |-> TRUE,
                matches |-> ms, totalMatches |-> Len(ms)]

ScanFailureAlt(dets) ==
    [success |-> FALSE, error |-> "visual_search_failed", has_matches |-> TRUE,
     matches |-> dets, totalMatches |-> Len(dets)]

\* except Exception: {"success": False, "error": "Visual search failed: ..."},
\* whatever detections dets the loop had gathered
ScanFailure(dets) == Failure("visual_search_failed")

\* ------------------------------------------------------------- validation
ThresholdInvalidAlt(t) == t <= 0 \/ t >= Scale

\* confidence_threshold < 0 or confidence_threshold > 1
ThresholdInvalid(t) == t < 0 \/ t > Scale

TemplateTooLargeAlt(tw, th, iw, ih) == tw > iw /\ th > ih

\* template_width > img_width or template_height > img_height
TemplateTooLarge(tw, th, iw, ih) == tw > iw \/ th > ih

\* a lookup that takes an unknown name for the squared difference
MethodMapAlt(m) ==
    CASE m \in {"cv2.TM_CCOEFF_NORMED", "TM_CCOEFF_NORMED"} -> "TM_CCOEFF_NORMED"
      [] m \in {"cv2.TM_CCORR_NORMED", "TM_CCORR_NORMED"} -> "TM_CCORR_NORMED"
      [] OTHER -> "TM_SQDIFF_NORMED"

\* method_map.get(method, cv2.TM_CCOEFF_NORMED)
MethodMap(m) ==
    CASE m \in {"cv2.TM_CCOEFF_NORMED", "TM_CCOEFF_NORMED"} -> "TM_CCOEFF_NORMED"
      [] m \in {"cv2.TM_CCORR_NORMED", "TM_CCORR_NORMED"} -> "TM_CCORR_NORMED"
      [] m \in {"cv2.TM_SQDIFF_NORMED", "TM_SQDIFF_NORMED"} -> "TM_SQDIFF_NORMED"
      [] OTHER -> "TM_CCOEFF_NORMED"

\* match_method in [cv2.TM_SQDIFF, cv2.TM_SQDIFF_NORMED]
Inverted(mm) == mm \in {"TM_SQDIFF", "TM_SQDIFF_NORMED"}

\* a loop that leaves out the last orientation
RotationsAlt == <<0, 90, 180>>

\* rotations = [0, 90, 180, 270]
Rotations == <<0, 90, 180, 270>>


\* ---------------------------------------------------------- template rotator
\* np.abs(rotation_matrix[0, 0]) and np.abs(rotation_matrix[0, 1]) of
\* cv2.getRotationMatrix2D(center, rot, 1.0): |cos rot| and |sin rot|.  At 90
\* and 270 degrees the cosine is a rounding residue below 2^-52, at 180 the
\* sine is, and int() drops what it adds to the size.
\* a cosine that vanishes at 180 degrees too
AbsCosAlt(rot) == IF rot = 0 THEN 1 ELSE 0
AbsCos(rot) == IF rot \in {0, 180} THEN 1 ELSE 0
AbsSin(rot) == IF rot \in {90, 270} THEN 1 ELSE 0

\* <<rotated_width, rotated_height>>
RotatedSize(rot, w, h) ==
    IF rot = 0 THEN <<w, h>>
    ELSE <<h * AbsSin(rot) + w * AbsCos(rot), h * AbsCos(rot) + w * AbsSin(rot)>>

\* -------------------------------------------------------- correlation scanner
\* cv2.matchTemplate raises (an assertion of the library) when the template
\* does not fit into the image, or is empty.  Past the size check of the
\* unrotated template a rotated template never covers the image in both
\* dimensions, so the library's swap of image and template is not in play.
MatchTemplateRaises(iw, ih, rw, rh) == rw > iw \/ rh > ih \/ rw < 1 \/ rh < 1

\* Shape of the array cv2.matchTemplate returns, <<columns, rows>>.
ResultSize(iw, ih, rw, rh) == <<iw - rw + 1, ih - rh + 1>>

\* Window origins <<x, y>> of the result array, in np.where order (row by row).
WindowSeq(iw, ih, rw, rh) ==
    LET n == ResultSize(iw, ih, rw, rh)
    IN  [k \in 1 .. n[1] * n[2] |-> <<(k - 1) % n[1], (k - 1) \div n[1]>>]

Windows(iw, ih, rw, rh) ==
    LET s == WindowSeq(iw, ih, rw, rh) IN {s[k] : k \in 1 .. Len(s)}

\* The raw score the library reports for a window of final quality q.
RawOf(mm, q) == IF Inverted(mm) THEN Scale - q ELSE q

\* The windows that may score above the background.
PeakSites(iw, ih, rw, rh) ==
    LET s == WindowSeq(iw, ih, rw, rh)
    IN  IF Len(s) <= MaxPeakSites THEN {s[k] : k \in 1 .. Len(s)}
        ELSE {s[1], s[Len(s)]}

\* What cv2.matchTemplate may return: every window at the background (final
\* score 0) except at most k windows of sites, which score a level of
\* PeakLevels.
RawMaps(mm, wins, sites, k) ==
    UNION {{[p \in wins |-> IF p \in P THEN RawOf(mm, lv[p]) ELSE RawOf(mm, 0)] :
                lv \in [P -> PeakLevels]} :
           P \in {Q \in SUBSET sites : Cardinality(Q) <= k}}

\* the raw scores as they are, whatever the method
FinalScoresAlt(mm, raw) == raw

\* result = 1 - result for the squared-difference methods
FinalScores(mm, raw) ==
    [p \in DOMAIN raw |-> IF Inverted(mm) THEN Scale - raw[p] ELSE raw[p]]

MeetsThresholdAlt(score, t) == score > t

\* result >= confidence_threshold
MeetsThreshold(score, t) == score >= t

\* a turned template recorded as the one pixel of its window's origin
DetectionPoint(p, rw, rh, res, rot) ==
    [x |-> p[1], y |-> p[2],
     width |-> IF rot = 0 THEN rw ELSE 1, height |-> IF rot = 0 THEN rh ELSE 1,
     confidence |-> res[p], rotation |-> rot]

\* origins counted from 1
DetectionOneBased(p, rw, rh, res, rot) ==
    [x |-> p[1] + 1, y |-> p[2] + 1, width |-> rw, height |-> rh,
     confidence |-> res[p], rotation |-> rot]

DetectionAlt(p, rw, rh, res, rot) ==
    [x |-> p[1], y |-> p[2], width |-> rh, height |-> rw,
     confidence |-> res[p], rotation |-> rot]

\* all_detections.append({...})
Detection(p, rw, rh, res, rot) ==
    [x |-> p[1], y |-> p[2], width |-> rw, height |-> rh,
     confidence |-> res[p], rotation |-> rot]

\* the detections one scan appends to all_detections
ScanDetections(res, t, iw, ih, rw, rh, rot) ==
    LET Hit(p) == MeetsThreshold(res[p], t)
        hits == SelectSeq(WindowSeq(iw, ih, rw, rh), Hit)
    IN  [i \in 1 .. Len(hits) |-> Detection(hits[i], rw, rh, res, rot)]

\* ----------------------------------------------------------- candidate reducer
\* the elements of seq of confidence c, last first
AtConfidenceAlt(seq, c) ==
    LET Same(d) == d.confidence = c
        same == SelectSeq(seq, Same)
    IN  [i \in 1 .. Len(same) |-> same[Len(same) + 1 - i]]

\* the elements of seq of confidence c, in the order they have in seq
AtConfidence(seq, c) ==
    LET Same(d) == d.confidence = c
    IN  SelectSeq(seq, Same)

\* the elements of seq whose confidence is in cs: the highest confidence
\* first, elements of equal confidence in the order they have in seq
RECURSIVE ByLevel(_, _)
ByLevel(seq, cs) ==
    IF cs = {} THEN <<>>
    ELSE LET top == CHOOSE c \in cs : \A e \in cs : c >= e
         IN  AtConfidence(seq, top) \o ByLevel(seq, cs \ {top})

SortedByConfidenceAlt(seq) == seq

\* sorted(seq, key=confidence, reverse=True): stable, descending.
SortedByConfidence(seq) ==
    ByLevel(seq, {seq[i].confidence : i \in 1 .. Len(seq)})

\* sorted(all_detections, key=..., reverse=True)[:n]
TopDetections(dets, n) == SubSeq(SortedByConfidence(dets), 1, n)

\* the first 1000 pooled, whatever their confidence
CapDetectionsAlt(dets) ==
    IF Len(dets) > MaxDetections THEN SubSeq(dets, 1, MaxDetections) ELSE dets

\* sorted(...)[:1000] when more than 1000 detections are pooled
CapDetections(dets) ==
    IF Len(dets) > MaxDetections
    THEN TopDetections(dets, MaxDetections)
    ELSE dets

\* round(confidence, 4)
Round4(c) ==
    LET unit == Scale \div Decimals
        r == c % unit
    IN  IF 2 * r < unit THEN c - r ELSE c + unit - r

\* distance <= max(w, h) * 0.8
TooCloseInclusive(x, y, w, h, ex, ey) ==
    LET m == IF w >= h THEN w ELSE h
    IN  25 * ((x - ex) * (x - ex) + (y - ey) * (y - ey)) <= 16 * m * m

\* distance < max(w, h) * 0.5
TooCloseHalf(x, y, w, h, ex, ey) ==
    LET m == IF w >= h THEN w ELSE h
    IN  4 * ((x - ex) * (x - ex) + (y - ey) * (y - ey)) < m * m

\* the same with min(w, h)
TooCloseAlt(x, y, w, h, ex, ey) ==
    LET m == IF w >= h THEN h ELSE w
    IN  25 * ((x - ex) * (x - ex) + (y - ey) * (y - ey)) < 16 * m * m

\* distance < max(w, h) * 0.8, with distance = sqrt(dx^2 + dy^2)
TooClose(x, y, w, h, ex, ey) ==
    LET m == IF w >= h THEN w ELSE h
    IN  25 * ((x - ex) * (x - ex) + (y - ey) * (y - ey)) < 16 * m * m

\* match_id left at 0
BuildMatchAlt(d, id, iw, ih) ==
    [id |-> 0, confidence |-> Round4(d.confidence),
     boundingBox |-> [x |-> <<d.x, iw>>, y |-> <<d.y, ih>>,
                      width |-> <<d.width, iw>>, height |-> <<d.height, ih>>],
     pdfCoordinates |-> [x |-> d.x, y |-> d.y,
                         width |-> d.width, height |-> d.height],
     rotation |-> d.rotation, pageNumber |-> 1]

\* matches.append({...}) with "id": f"match_{match_id}"
BuildMatch(d, id, iw, ih) ==
    [id |-> id, confidence |-> Round4(d.confidence),
     boundingBox |-> [x |-> <<d.x, iw>>, y |-> <<d.y, ih>>,
                      width |-> <<d.width, iw>>, height |-> <<d.height, ih>>],
     pdfCoordinates |-> [x |-> d.x, y |-> d.y,
                         width |-> d.width, height |-> d.height],
     rotation |-> d.rotation, pageNumber |-> 1]

\* the loop over all_detections_sorted; ms is the matches list so far, whose
\* positions are detected_positions and whose length is match_id
RECURSIVE ClusterFrom(_, _, _, _)
ClusterFrom(ms, rest, iw, ih) ==
    IF rest = <<>> THEN ms
    ELSE LET d == Head(rest)
             too_close == \E i \in 1 .. Len(ms) :
                 TooClose(d.x, d.y, d.width, d.height,
                          ms[i].pdfCoordinates.x, ms[i].pdfCoordinates.y)
         IN  ClusterFrom(IF too_close THEN ms
                         ELSE Append(ms, BuildMatch(d, Len(ms), iw, ih)),
                         Tail(rest), iw, ih)

\* the loop over all_detections as pooled, not sorted
ClusterPassAlt(dets, iw, ih) == ClusterFrom(<<>>, dets, iw, ih)

\* lines 172-217
ClusterPass(dets, iw, ih) == ClusterFrom(<<>>, SortedByConfidence(dets), iw, ih)

Min(a, b) == IF a <= b THEN a ELSE b
Max(a, b) == IF a >= b THEN a ELSE b

\* overlap_x times the height of the first rectangle
OverlapAreaAlt(a, b) ==
    Max(0, Min(a.x + a.width, b.x + b.width) - Max(a.x, b.x)) * a.height

\* overlap_area of two pdfCoordinates rectangles
OverlapArea(a, b) ==
    Max(0, Min(a.x + a.width, b.x + b.width) - Max(a.x, b.x))
      * Max(0, Min(a.y + a.height, b.y + b.height) - Max(a.y, b.y))

\* overlap_ratio > 0
OverlapsAlt(m, used) ==
    LET match_area == m.pdfCoordinates.width * m.pdfCoordinates.height
    IN  match_area > 0
        /\ OverlapArea(m.pdfCoordinates, used.pdfCoordinates) > 0

\* overlap_ratio > 0.5, with overlap_ratio = overlap_area / match_area
\* (0 when match_area is 0)
Overlaps(m, used) ==
    LET match_area == m.pdfCoordinates.width * m.pdfCoordinates.height
    IN  match_area > 0
        /\ 2 * OverlapArea(m.pdfCoordinates, used.pdfCoordinates) > match_area

RECURSIVE OverlapFrom(_, _)
OverlapFrom(kept, rest) ==
    IF rest = <<>> THEN kept
    ELSE LET m == Head(rest)
             overlap == \E i \in 1 .. Len(kept) : Overlaps(m, kept[i])
         IN  OverlapFrom(IF overlap THEN kept ELSE Append(kept, m), Tail(rest))

OverlapPass(ms) == OverlapFrom(<<>>, SortedByConfidence(ms))

\* --------------------------------------------------------------- the run
\* main starts, image_path and template_path naming a pair of pairs
Start(pairs) ==
    /\ argv \in ArgVectors
    /\ stdout = <<>>
    /\ exit_code = 0 - 1
    /\ \E pair \in pairs : /\ image_file = pair[1]
                           /\ template_file = pair[2]
    /\ confidence_threshold = 0
    /\ method = "unset"
    /\ pc = "main"
    /\ img_width = 0 /\ img_height = 0
    /\ template_width = 0 /\ template_height = 0
    /\ match_method = "unset"
    /\ rotation = 1
    /\ rotated_width = 0 /\ rotated_height = 0
    /\ raw_result = <<>>
    /\ result = <<>>
    /\ all_detections = <<>>
    /\ matches = <<>>
    /\ filtered_matches = <<>>
    /\ response = Pending

Init == Start(FilePairs)

\* the search of the 16x16 image
CapInit == Start(LargePairs)

Return(r) == /\ response' = r
             /\ pc' = "done"
             /\ UNCHANGED cli

Goto(label) == /\ pc' = label
               /\ UNCHANGED <<response, cli>>

\* lines 278-284: too few arguments
MainUsage ==
    /\ pc = "main"
    /\ Len(argv) < 4
    /\ stdout' = Append(stdout, Failure("missing_arguments"))
    /\ exit_code' = 1
    /\ pc' = "exited"
    /\ UNCHANGED <<inputs, locals, response>>

\* lines 286-291: the arguments are read and visual_search is called; a
\* ValueError of float() is not caught, the interpreter prints the traceback
\* on stderr and exits with status 1
MainArgs ==
    /\ pc = "main"
    /\ Len(argv) >= 4
    /\ IF FloatRaises(argv[4])
       THEN /\ exit_code' = 1
            /\ pc' = "exited"
            /\ UNCHANGED <<confidence_threshold, method>>
       ELSE /\ confidence_threshold' = Float(argv[4])
            /\ method' = IF Len(argv) > 4 THEN argv[5] ELSE DefaultMethod
            /\ pc' = "validate"
            /\ UNCHANGED exit_code
    /\ UNCHANGED <<argv, image_file, template_file, locals, response, stdout>>

\* lines 291-295: visual_search returned; print(json.dumps(result)), then
\* sys.exit(1) unless result.get("success")
MainExit ==
    /\ pc = "done"
    /\ stdout' = Append(stdout, response)
    /\ exit_code' = IF response.success THEN 0 ELSE 1
    /\ pc' = "exited"
    /\ UNCHANGED <<inputs, locals, response>>

\* lines 45-50
Validate ==
    /\ pc = "validate"
    /\ IF ThresholdInvalid(confidence_threshold)
       THEN Return(Failure("threshold"))
       ELSE Goto("exists")
    /\ UNCHANGED <<inputs, locals>>

\* lines 52-63
CheckExists ==
    /\ pc = "exists"
    /\ IF image_file.status = "missing" THEN Return(Failure("image_not_found"))
       ELSE IF template_file.status = "missing"
            THEN Return(Failure("template_not_found"))
            ELSE Goto("load")
    /\ UNCHANGED <<inputs, locals>>

\* the search goes on whatever cv2.imread returned
LoadImagesAlt ==
    /\ pc = "load"
    /\ Goto("size")
    /\ UNCHANGED <<inputs, locals>>

\* lines 65-78
LoadImages ==
    /\ pc = "load"
    /\ IF image_file.status # "ok" THEN Return(Failure("image_load_failed"))
       ELSE IF template_file.status # "ok"
            THEN Return(Failure("template_load_failed"))
            ELSE Goto("size")
    /\ UNCHANGED <<inputs, locals>>

\* lines 80-110
CheckSize ==
    /\ pc = "size"
    /\ img_width' = image_file.width
    /\ img_height' = image_file.height
    /\ template_width' = template_file.width
    /\ template_height' = template_file.height
    /\ IF TemplateTooLarge(template_file.width, template_file.height,
                           image_file.width, image_file.height)
       THEN /\ Return(Failure("template_too_large"))
            /\ UNCHANGED match_method
       ELSE /\ match_method' = MethodMap(method)
            /\ Goto("scan")
    /\ UNCHANGED <<inputs, rotation, rotated_width, rotated_height,
                   raw_result, result,
                   all_detections, matches, filtered_matches>>

\* windows above the background among the detections pooled so far
PeaksSoFar == Cardinality({i \in 1 .. Len(all_detections) :
                               all_detections[i].confidence # 0})

\* lines 112-158, one pass of the loop whose matchTemplate call returns
ScanRotation ==
    /\ pc = "scan"
    /\ LET rot == Rotations[rotation]
           size == RotatedSize(rot, template_width, template_height)
       IN  /\ ~MatchTemplateRaises(img_width, img_height, size[1], size[2])
           /\ rotated_width' = size[1]
           /\ rotated_height' = size[2]
           /\ \E raw \in RawMaps(match_method,
                                 Windows(img_width, img_height, size[1], size[2]),
                                 PeakSites(img_width, img_height,
                                           size[1], size[2]),
                                 MaxPeaks - PeaksSoFar) :
                  /\ raw_result' = raw
                  /\ result' = FinalScores(match_method, raw)
                  /\ all_detections' = all_detections \o
                         ScanDetections(result', confidence_threshold,
                                        img_width, img_height,
                                        size[1], size[2], rot)
    /\ rotation' = rotation + 1
    /\ IF rotation = Len(Rotations) THEN Goto("cap") ELSE Goto("scan")
    /\ UNCHANGED <<inputs, img_width, img_height, template_width,
                   template_height, match_method, matches, filtered_matches>>

\* lines 112-137 and 267-274, the pass whose matchTemplate call raises
ScanRaises ==
    /\ pc = "scan"
    /\ LET rot == Rotations[rotation]
           size == RotatedSize(rot, template_width, template_height)
       IN  /\ MatchTemplateRaises(img_width, img_height, size[1], size[2])
           /\ rotated_width' = size[1]
           /\ rotated_height' = size[2]
    /\ Return(ScanFailure(all_detections))
    /\ UNCHANGED <<inputs, img_width, img_height, template_width,
                   template_height, match_method, rotation, raw_result,
                   result, all_detections, matches, filtered_matches>>

\* lines 160-163
Cap ==
    /\ pc = "cap"
    /\ all_detections' = CapDetections(all_detections)
    /\ Goto("cluster")
    /\ UNCHANGED <<inputs, img_width, img_height, template_width,
                   template_height, match_method, rotation, rotated_width,
                   rotated_height, raw_result, result, matches,
                   filtered_matches>>

\* lines 165-217
Cluster ==
    /\ pc = "cluster"
    /\ matches' = ClusterPass(all_detections, img_width, img_height)
    /\ Goto("suppress")
    /\ UNCHANGED <<inputs, img_width, img_height, template_width,
                   template_height, match_method, rotation, rotated_width,
                   rotated_height, raw_result, result, all_detections,
                   filtered_matches>>

\* lines 219-265
Suppress ==
    /\ pc = "suppress"
    /\ filtered_matches' = OverlapPass(matches)
    /\ Return(Success(filtered_matches'))
    /\ UNCHANGED <<inputs, img_width, img_height, template_width,
                   template_height, match_method, rotation, rotated_width,
                   rotated_height, raw_result, result, all_detections,
                   matches>>

Next == \/ MainUsage
        \/ MainArgs
        \/ Validate
        \/ CheckExists
        \/ LoadImages
        \/ CheckSize
        \/ ScanRotation
        \/ ScanRaises
        \/ Cap
        \/ Cluster
        \/ Suppress
        \/ MainExit

Spec == Init /\ [][Next]_vars

\* The search of the 16x16 image up to the entry of the distance pass (line
\* 165).  A 1x1 template fits in every orientation, no scan raises.
CapNext == \/ MainUsage
           \/ MainArgs
           \/ Validate
           \/ CheckExists
           \/ LoadImages
           \/ CheckSize
           \/ ScanRotation
           \/ Cap

CapSpec == CapInit /\ [][CapNext]_vars

\* ------------------------------------------------------------------ claims
Done == pc = "done"
Returned == response.matches
Box(i) == Returned[i].pdfCoordinates
BoxArea(i) == Box(i).width * Box(i).height
Lesser(a, b) == IF a <= b THEN a ELSE b
Greater(a, b) == IF a >= b THEN a ELSE b
\* area of the intersection of the pixel rectangles of matches i and j
Intersection(i, j) ==
    Greater(0, Lesser(Box(i).x + Box(i).width, Box(j).x + Box(j).width)
                 - Greater(Box(i).x, Box(j).x))
      * Greater(0, Lesser(Box(i).y + Box(i).height, Box(j).y + Box(j).height)
                     - Greater(Box(i).y, Box(j).y))
ThresholdInRange == 0 <= confidence_threshold /\ confidence_threshold <= Scale
BothLoaded == image_file.status = "ok" /\ template_file.status = "ok"
\* the four scans all returned
ScansCompleted == rotation > Len(Rotations)

\* C1: in every successful response, for any two distinct matches the area of
\* the intersection of their pixel rectangles is at most half the area of the
\* smaller rectangle.
C1_NonOverlap ==
    (Done /\ response.success) =>
        \A i, j \in 1 .. Len(Returned) :
            i # j => 2 * Intersection(i, j) <= Lesser(BoxArea(i), BoxArea(j))

\* two returned matches whose rectangles do intersect
C1_Witness ==
    /\ Done /\ response.success
    /\ \E i, j \in 1 .. Len(Returned) : i # j /\ Intersection(i, j) > 0

\* C2: in every successful response each match's reported (rounded)
\* confidence is at least the threshold.
C2_ConfidenceAtLeastThreshold ==
    (Done /\ response.success) =>
        \A i \in 1 .. Len(Returned) :
            Returned[i].confidence >= confidence_threshold

\* C3: every returned match's pixel rectangle lies inside the target image.
C3_BoxInsideImage ==
    (Done /\ response.success) =>
        \A i \in 1 .. Len(Returned) :
            /\ Box(i).x >= 0 /\ Box(i).y >= 0
            /\ Box(i).x + Box(i).width <= image_file.width
            /\ Box(i).y + Box(i).height <= image_file.height

\* a response with a match of each orientation, the 90 degree one of a
\* non-square template reaching the right or the bottom edge of the image
C3_Witness ==
    /\ Done /\ response.success
    /\ template_file.width # template_file.height
    /\ \E i \in 1 .. Len(Returned) :
           /\ Returned[i].rotation = 90
           /\ \/ Box(i).x + Box(i).width = image_file.width
              \/ Box(i).y + Box(i).height = image_file.height
    /\ \E i \in 1 .. Len(Returned) : Returned[i].rotation \in {0, 180}

\* C4: the returned list is in descending order of confidence.
C4_DescendingConfidence ==
    (Done /\ response.success) =>
        \A i, j \in 1 .. Len(Returned) :
            i < j => Returned[i].confidence >= Returned[j].confidence

\* a response of matches of different confidence whose best detection was
\* not the first one pooled
C4_Witness ==
    /\ Done /\ response.success /\ Len(Returned) >= 2
    /\ Returned[1].confidence > Returned[Len(Returned)].confidence
    /\ all_detections[1].confidence < Returned[1].confidence

\* C5: the run ends in the threshold error, without matches, exactly when the
\* threshold is below 0 or above 1, whatever the two files are.
C5_ThresholdErrorIffOutOfRange ==
    Done => /\ (response.error = "threshold") <=> ~ThresholdInRange
            /\ response.error = "threshold" =>
                   ~response.success /\ ~response.has_matches
                   /\ Returned = <<>>

\* an out-of-range threshold reported although the image file is missing
C5_Witness ==
    /\ Done /\ ~ThresholdInRange /\ response.error = "threshold"
    /\ image_file.status = "missing" /\ template_file.status = "unreadable"

\* C6 as stated: an unrotated template wider or taller than the image gives
\* the template-too-large error, no scan and no matches.
C6_Original ==
    (Done /\ BothLoaded
          /\ (template_file.width > image_file.width
              \/ template_file.height > image_file.height)) =>
        /\ response = Failure("template_too_large")
        /\ result = <<>> /\ all_detections = <<>>

\* C6 amended: the same when the threshold is within [0, 1].
C6_TooLargeAfterValidThreshold ==
    (Done /\ ThresholdInRange /\ BothLoaded
          /\ (template_file.width > image_file.width
              \/ template_file.height > image_file.height)) =>
        /\ ~response.success /\ response.error = "template_too_large"
        /\ ~response.has_matches /\ Returned = <<>>
        /\ result = <<>> /\ all_detections = <<>> /\ rotated_width = 0

\* a template wider but not taller than the image, rejected
C6_Witness ==
    /\ Done /\ ThresholdInRange /\ BothLoaded
    /\ template_file.width > image_file.width
    /\ template_file.height <= image_file.height
    /\ response.error = "template_too_large"

\* C7: when the unrotated template fits but its 90/270 degree rotation does
\* not, the failure reported is the template-too-large error.
C7_RotatedTooLargeReported ==
    (Done /\ ThresholdInRange /\ BothLoaded
          /\ template_file.width <= image_file.width
          /\ template_file.height <= image_file.height
          /\ (template_file.height > image_file.width
              \/ template_file.width > image_file.height)) =>
        response.error = "template_too_large"

\* C8: a failure carries no matches, also when the scan of an orientation
\* fails after earlier orientations contributed detections.
C8_FailureWithoutMatches ==
    /\ response.has_matches => response.success
    /\ (Done /\ ~response.success) =>
           /\ response.error \notin {"none", "pending"}
           /\ ~response.has_matches /\ Returned = <<>>
           /\ response.totalMatches = 0
    /\ (Done /\ ~ScansCompleted /\ all_detections # <<>>) => ~response.success

\* the 90 degree scan failed after the 0 degree scan had pooled detections
C8_Witness ==
    /\ Done /\ ~response.success /\ response.error = "visual_search_failed"
    /\ all_detections # <<>> /\ rotation = 2

\* C9: when the four scans pooled no detection the response is a success
\* with an empty match list and totalMatches = 0.
C9_EmptyPoolSucceeds ==
    (Done /\ ScansCompleted /\ all_detections = <<>>) =>
        /\ response.success /\ response.error = "none"
        /\ response.has_matches /\ Returned = <<>>
        /\ response.totalMatches = 0

\* four completed scans of a 2x1 template without any detection
C9_Witness ==
    /\ Done /\ ScansCompleted /\ all_detections = <<>>
    /\ confidence_threshold > 0 /\ template_file.width = 2

\* the template has exactly the width and the height of the image
SameSize ==
    /\ BothLoaded
    /\ template_file.width = image_file.width
    /\ template_file.height = image_file.height

\* C11: a template of exactly the image's size yields at most one match, and
\* a match it yields has pixel origin (0, 0), whatever the template's shape
\* and whichever orientations contributed detections.
C11_SameSizeAtMostOneAtOrigin ==
    (Done /\ SameSize) =>
        /\ Len(Returned) <= 1
        /\ response.totalMatches <= 1
        /\ \A i \in 1 .. Len(Returned) : Box(i).x = 0 /\ Box(i).y = 0

\* a square template of the image's size, detected in more than one
\* orientation and returned as one match
C11_Witness ==
    /\ Done /\ SameSize /\ response.success
    /\ Len(Returned) = 1
    /\ \E i, j \in 1 .. Len(all_detections) :
           all_detections[i].rotation # all_detections[j].rotation

\* the pooled windows: every window, of any orientation, that met the threshold
Pooled == 1 .. Len(all_detections)
LongSide == Greater(template_file.width, template_file.height)
\* the origins of pooled windows i and j are less than 0.8 * max(width,
\* height) apart
Near(i, j) ==
    LET dx == all_detections[i].x - all_detections[j].x
        dy == all_detections[i].y - all_detections[j].y
    IN  25 * (dx * dx + dy * dy) < 16 * LongSide * LongSide
\* pooled window k is the 0 degree window that scores best of all, and every
\* other pooled window is near it
SingleInstance(k) ==
    /\ all_detections[k].rotation = 0
    /\ \A j \in Pooled \ {k} :
           /\ all_detections[j].confidence < all_detections[k].confidence
           /\ Near(j, k)
\* the response is exactly the one match of pooled window k, unrotated
OnlyMatchIs(k) ==
    /\ response.success /\ Len(Returned) = 1 /\ response.totalMatches = 1
    /\ Box(1) = [x |-> all_detections[k].x, y |-> all_detections[k].y,
                 width |-> template_file.width,
                 height |-> template_file.height]
    /\ Returned[1].rotation = 0

\* C12 as stated: if the best window over all orientations is a 0 degree
\* window and every other window meeting the threshold is nearer to it than
\* 0.8 * max(width, height), the response is exactly that one match.
C12_Original ==
    Done => \A k \in Pooled : SingleInstance(k) => OnlyMatchIs(k)

\* C12 amended: the same when the scans of the four orientations all returned.
C12_SingleInstanceAfterFourScans ==
    (Done /\ ScansCompleted) =>
        \A k \in Pooled : SingleInstance(k) => OnlyMatchIs(k)

\* a single instance surrounded by weaker windows, one of them of another
\* orientation and one of them pooled before it
C12_Witness ==
    /\ Done /\ ScansCompleted
    /\ \E k \in Pooled :
           /\ SingleInstance(k) /\ OnlyMatchIs(k)
           /\ k > 1
           /\ \E j \in Pooled : all_detections[j].rotation # 0

\* the rectangles of pooled windows i and j have no pixel in common
Apart(i, j) ==
    LET a == all_detections[i]
        b == all_detections[j]
    IN  \/ a.x + a.width <= b.x \/ b.x + b.width <= a.x
        \/ a.y + a.height <= b.y \/ b.y + b.height <= a.y
\* returned match m is the match of pooled window i
MatchOf(m, i) ==
    /\ Box(m) = [x |-> all_detections[i].x, y |-> all_detections[i].y,
                 width |-> all_detections[i].width,
                 height |-> all_detections[i].height]
    /\ Returned[m].rotation = all_detections[i].rotation
\* exactly two matches, one per pooled window, of different ids
TwoMatches ==
    /\ response.success /\ Len(Returned) = 2 /\ response.totalMatches = 2
    /\ \A i \in Pooled : \E m \in 1 .. 2 : MatchOf(m, i)
    /\ \A m \in 1 .. 2 : \E i \in Pooled : MatchOf(m, i)
    /\ Returned[1].id # Returned[2].id

\* C13 as stated: if exactly two windows meet the threshold and their
\* rectangles do not intersect, the response is exactly two matches, one per
\* window, of different ids.
C13_Original ==
    (Done /\ Len(all_detections) = 2 /\ Apart(1, 2)) => TwoMatches

\* C13 amended: the same when the scans of the four orientations all returned
\* and the origins of the two windows are at least 0.8 * max(width, height)
\* apart.
C13_TwoDistantInstances ==
    (Done /\ ScansCompleted /\ Len(all_detections) = 2
          /\ Apart(1, 2) /\ ~Near(1, 2)) => TwoMatches

\* two distant windows of different orientations, the stronger pooled second
C13_Witness ==
    /\ Done /\ ScansCompleted /\ Len(all_detections) = 2
    /\ Apart(1, 2) /\ ~Near(1, 2) /\ TwoMatches
    /\ all_detections[1].rotation # all_detections[2].rotation
    /\ all_detections[1].confidence < all_detections[2].confidence

\* C14: in every successful response the k-th match (k counted from 0)
\* carries id number k.
C14_IdsInOutputOrder ==
    (Done /\ response.success) =>
        \A k \in 1 .. Len(Returned) : Returned[k].id = k - 1

\* three matches returned out of a larger pool, a discarded detection having
\* been processed between two accepted ones
C14_Witness ==
    /\ Done /\ response.success /\ Len(Returned) >= 3
    /\ \E i, j, k \in Pooled :
           /\ i < j /\ j < k
           /\ all_detections[i].confidence = all_detections[k].confidence
           /\ \E m \in 1 .. Len(Returned) : MatchOf(m, i)
           /\ \A m \in 1 .. Len(Returned) : ~MatchOf(m, j)
           /\ \E m \in 1 .. Len(Returned) : MatchOf(m, k)

Exited == pc = "exited"

\* C15: main exits with code 0 exactly when the result it printed has
\* success = true; in every other case it exits with a non-zero code after
\* printing a result whose error field is populated.
C15_ExitCodeAndPrintedError ==
    Exited =>
        /\ exit_code = 0 <=> (Len(stdout) = 1 /\ stdout[1].success)
        /\ exit_code # 0 =>
               /\ Len(stdout) = 1
               /\ ~stdout[1].success
               /\ stdout[1].error \notin {"none", "pending"}

\* The detections a search of an iw x ih image for a tw x th template can
\* pool: one per orientation and window, of any score level.
Hypotheses(iw, ih, tw, th) ==
    UNION {LET size == RotatedSize(Rotations[r], tw, th)
           IN  {[x |-> p[1], y |-> p[2], width |-> size[1], height |-> size[2],
                 confidence |-> c, rotation |-> Rotations[r]] :
                    p \in Windows(iw, ih, size[1], size[2]), c \in PeakLevels} :
           r \in 1 .. Len(Rotations)}
\* sizes for which the four scans return
FitsTurned(iw, ih, tw, th) ==
    \A r \in 1 .. Len(Rotations) :
        LET size == RotatedSize(Rotations[r], tw, th)
        IN  ~MatchTemplateRaises(iw, ih, size[1], size[2])
\* of the pooled pair <<e, d>> both survive the distance pass and one is then
\* removed by the overlap pass
RemovedByOverlapPass(e, d, iw, ih) ==
    LET ms == ClusterPass(<<e, d>>, iw, ih)
    IN  Len(ms) = 2 /\ Len(OverlapPass(ms)) < 2

\* C16 as stated: among the searches that main may start there are pooled
\* detections, two hypotheses of different orientations at the same place, of
\* which one survives the distance pass and is then removed by the overlap
\* pass.
C16_Original ==
    pc = "main" =>
        \E iw, ih, tw, th \in 1 .. 3 :
            /\ FitsTurned(iw, ih, tw, th)
            /\ \E e, d \in Hypotheses(iw, ih, tw, th) :
                   e # d /\ RemovedByOverlapPass(e, d, iw, ih)

\* C16 amended: the overlap pass removes nothing that the distance pass kept;
\* the returned list is the clustered list.
C16_OverlapPassRemovesNothing ==
    (Done /\ response.success) =>
        filtered_matches = matches /\ Returned = matches

\* the overlap pass met two hypotheses of different orientations whose
\* rectangles intersect
C16_Witness ==
    /\ Done /\ response.success /\ filtered_matches = matches
    /\ \E i, j \in 1 .. Len(matches) :
           /\ matches[i].rotation # matches[j].rotation
           /\ OverlapArea(matches[i].pdfCoordinates,
                          matches[j].pdfCoordinates) > 0

\* the distance pass has run
Clustered == pc = "suppress"
\* match n of the clustered list is the cluster center made of pooled window i
CenterOf(n, i) ==
    /\ matches[n].pdfCoordinates =
           [x |-> all_detections[i].x, y |-> all_detections[i].y,
            width |-> all_detections[i].width,
            height |-> all_detections[i].height]
    /\ matches[n].rotation = all_detections[i].rotation
Accepted(i) == \E n \in 1 .. Len(matches) : CenterOf(n, i)
DetectionOf(n) == CHOOSE i \in Pooled : CenterOf(n, i)
\* 25 * (squared distance) and 16 * (squared longer side) of window i's own
\* footprint: distance >= 0.8 * max(width, height) iff the first >= the second
Distance25(i, n) ==
    LET dx == all_detections[i].x - matches[n].pdfCoordinates.x
        dy == all_detections[i].y - matches[n].pdfCoordinates.y
    IN  25 * (dx * dx + dy * dy)
Reach16(i) ==
    LET m == Greater(all_detections[i].width, all_detections[i].height)
    IN  16 * m * m
FarFrom(i, n) == Distance25(i, n) >= Reach16(i)

\* C17: the distance pass accepts centers in descending confidence order; a
\* detection is a center iff it is at least 0.8 * max(width, height) of its
\* own footprint away from every center accepted before it, and a detection
\* nearer than that to such a center is discarded.
C17_DistanceClustering ==
    Clustered =>
        /\ \A n \in 1 .. Len(matches) : Accepted(DetectionOf(n))
        /\ \A n, k \in 1 .. Len(matches) :
               k < n =>
                   /\ DetectionOf(k) # DetectionOf(n)
                   /\ all_detections[DetectionOf(k)].confidence
                          >= all_detections[DetectionOf(n)].confidence
                   /\ FarFrom(DetectionOf(n), k)
        /\ \A i \in Pooled :
               ~Accepted(i) =>
                   \E k \in 1 .. Len(matches) :
                       /\ all_detections[DetectionOf(k)].confidence
                              >= all_detections[i].confidence
                       /\ ~FarFrom(i, k)

\* a center accepted at exactly 0.8 * max(width, height) from an earlier
\* center, and a detection far from the first center discarded for the second
C17_Witness ==
    /\ Clustered /\ Len(matches) >= 2
    /\ Distance25(DetectionOf(2), 1) = Reach16(DetectionOf(2))
    /\ \E i \in Pooled : ~Accepted(i) /\ FarFrom(i, 1) /\ ~FarFrom(i, 2)

\* area of the intersection of the rectangles of clustered match m and
\* returned match k, and the area of clustered match m
Shared(m, k) ==
    LET a == matches[m].pdfCoordinates
        b == Box(k)
    IN  Greater(0, Lesser(a.x + a.width, b.x + b.width) - Greater(a.x, b.x))
          * Greater(0, Lesser(a.y + a.height, b.y + b.height) - Greater(a.y, b.y))
OwnArea(m) == matches[m].pdfCoordinates.width * matches[m].pdfCoordinates.height
Kept(m) == \E k \in 1 .. Len(Returned) : Returned[k] = matches[m]
\* returned match k is processed before clustered match m: its confidence is
\* higher, or the same and it was clustered earlier
KeptBefore(k, m) ==
    \/ Returned[k].confidence > matches[m].confidence
    \/ /\ Returned[k].confidence = matches[m].confidence
       /\ Returned[k].id < matches[m].id
\* returned match k is clustered match n
IsMatch(k, n) == Returned[k] = matches[n]
\* area of the intersection of the rectangles of clustered matches m and n
SharedByMatches(m, n) ==
    LET a == matches[m].pdfCoordinates
        b == matches[n].pdfCoordinates
    IN  Greater(0, Lesser(a.x + a.width, b.x + b.width) - Greater(a.x, b.x))
          * Greater(0, Lesser(a.y + a.height, b.y + b.height) - Greater(a.y, b.y))

\* C18: the overlap pass returns clustered detections in descending
\* confidence order, and a clustered detection is returned if and only if
\* its intersection with every rectangle kept before it is at most half of
\* its own area.  The detections that reach the pass are at least
\* 0.8 * max(width, height) apart and of one area, so none shares half of its
\* area with another: every one is returned, and the comparison of line 250
\* never decides.
C18_OverlapSuppression ==
    (Done /\ response.success) =>
        /\ \A k \in 1 .. Len(Returned) :
               \E m \in 1 .. Len(matches) : IsMatch(k, m)
        /\ \A k, l \in 1 .. Len(Returned) :
               k < l => /\ Returned[k] # Returned[l]
                        /\ Returned[k].confidence >= Returned[l].confidence
        /\ \A m \in 1 .. Len(matches) :
               Kept(m) <=> \A k \in 1 .. Len(Returned) :
                               KeptBefore(k, m) => 2 * Shared(m, k) <= OwnArea(m)

\* every clustered detection is returned, each sharing less than half of its
\* area with any other
C18_NothingSuppressed ==
    (Done /\ response.success) =>
        /\ Len(Returned) = Len(matches)
        /\ \A m, n \in 1 .. Len(matches) :
               m # n => 2 * SharedByMatches(m, n) < OwnArea(m)

\* a detection kept although a third of it lies in a rectangle kept before
C18_Witness ==
    /\ Done /\ response.success
    /\ \E m \in 1 .. Len(matches) :
           /\ Kept(m)
           /\ \E k \in 1 .. Len(Returned) :
                  KeptBefore(k, m) /\ 3 * Shared(m, k) = OwnArea(m)

\* detection d is scanned before detection e: orientation order 0, 90, 180,
\* 270, then row by row within one orientation
ScanEarlier(d, e) ==
    \/ d.rotation < e.rotation
    \/ /\ d.rotation = e.rotation
       /\ \/ d.y < e.y
          \/ d.y = e.y /\ d.x < e.x
\* d is processed before e: higher confidence first, ties in scan order
Precedes(d, e) ==
    \/ d.confidence > e.confidence
    \/ d.confidence = e.confidence /\ ScanEarlier(d, e)
\* the origins of pooled windows i and j are at least 0.8 * max(width,
\* height) of window i apart
FarApart(i, j) ==
    LET dx == all_detections[i].x - all_detections[j].x
        dy == all_detections[i].y - all_detections[j].y
    IN  25 * (dx * dx + dy * dy) >= Reach16(i)
\* the order in which the passes take the detections left by a cap at n
ProcessedAfterCap(n) == SortedByConfidence(TopDetections(all_detections, n))
\* the order in which they take the whole pool
Processed == SortedByConfidence(all_detections)

\* the caps that cut the pool, for pools of up to 8 detections
CapLengths ==
    IF Len(all_detections) <= 8 THEN 1 .. Len(all_detections) - 1 ELSE {}

\* C19: both passes take detections of equal confidence in scan order, with
\* or without a cap: the pool is in scan order, the distance pass is the
\* greedy choice along "higher confidence first, ties in scan order", both
\* lists are in that order, and a cap that cuts the pool leaves that order.
C19_TiesInScanOrder ==
    (Done /\ response.success) =>
        /\ \A i, j \in Pooled :
               i < j => ScanEarlier(all_detections[i], all_detections[j])
        /\ LET center == [n \in 1 .. Len(matches) |-> DetectionOf(n)]
           IN  /\ \A i \in Pooled :
                      (\E n \in 1 .. Len(matches) : center[n] = i) <=>
                          \A n \in 1 .. Len(matches) :
                              Precedes(all_detections[center[n]],
                                       all_detections[i]) => FarApart(i, center[n])
               /\ \A n, k \in 1 .. Len(matches) :
                      n < k => Precedes(all_detections[center[n]],
                                        all_detections[center[k]])
        /\ LET window == [n \in 1 .. Len(Returned) |->
                              CHOOSE i \in Pooled : MatchOf(n, i)]
           IN  \A n, k \in 1 .. Len(Returned) :
                   n < k => Precedes(all_detections[window[n]],
                                     all_detections[window[k]])
        /\ CapLengths # {} =>
               LET all == Processed
               IN  /\ Len(all) = Len(all_detections)
                   /\ \A a \in Pooled : \E i \in Pooled : all[a] = all_detections[i]
                   /\ \A a, b \in Pooled : a < b => Precedes(all[a], all[b])
                   /\ \A n \in CapLengths :
                          ProcessedAfterCap(n) = SubSeq(all, 1, n)

\* of two windows of one orientation and equal confidence, too near each
\* other, the one scanned first became the match; and two matches of equal
\* confidence and different orientations are returned
C19_Witness ==
    /\ Done /\ response.success
    /\ \E i, j \in Pooled :
           /\ i < j
           /\ all_detections[i].confidence = all_detections[j].confidence
           /\ all_detections[i].rotation = all_detections[j].rotation
           /\ Accepted(i) /\ ~Accepted(j) /\ ~FarApart(j, i)
           /\ \A k \in Pooled \ {i} : Accepted(k) => FarApart(j, k)
    /\ \E n, k \in 1 .. Len(Returned) :
           /\ n < k
           /\ Returned[n].confidence = Returned[k].confidence
           /\ Returned[n].rotation < Returned[k].rotation

\* the orders in which the four scans may run: the permutations of the
\* positions of Rotations
ScanOrders ==
    {o \in [1 .. Len(Rotations) -> 1 .. Len(Rotations)] :
        \A a, b \in 1 .. Len(Rotations) : a # b => o[a] # o[b]}
\* what the scan of orientation Rotations[r] contributed to the pool: a
\* function of the image, the turned template and the threshold alone
DetectionsOfScan(r) ==
    LET OfScan(d) == d.rotation = Rotations[r]
    IN  SelectSeq(all_detections, OfScan)
\* the pool when the scans contribute in order o
PooledIn(o) ==
    DetectionsOfScan(o[1]) \o DetectionsOfScan(o[2])
        \o DetectionsOfScan(o[3]) \o DetectionsOfScan(o[4])
\* the match list returned from that pool
ReturnedIn(o) ==
    OverlapPass(ClusterPass(CapDetections(PooledIn(o)), img_width, img_height))
\* some scan raises, whichever order they run in
SomeScanRaises(o) ==
    \E a \in 1 .. Len(Rotations) :
        LET size == RotatedSize(Rotations[o[a]], template_width, template_height)
        IN  MatchTemplateRaises(img_width, img_height, size[1], size[2])
\* no two pooled windows of different orientations have the same score
NoTieAcrossOrientations ==
    \A i, j \in Pooled :
        all_detections[i].rotation # all_detections[j].rotation =>
            all_detections[i].confidence # all_detections[j].confidence

\* C20 as stated: whatever the order in which the four scans contribute to
\* the pool, the same ordered match list is returned.
C20_Original ==
    (Done /\ response.success) =>
        \A o \in ScanOrders : ReturnedIn(o) = Returned

\* C20 amended: the same when no two detections of different orientations
\* have equal confidence; and a run that fails in a scan fails in every order.
C20_OrderFreeWithoutTies ==
    /\ (Done /\ response.success /\ NoTieAcrossOrientations) =>
           \A o \in ScanOrders : ReturnedIn(o) = Returned
    /\ (Done /\ response.error = "visual_search_failed") =>
           \A o \in ScanOrders : SomeScanRaises(o)

\* two windows of different orientations and different scores, too near each
\* other: the one pooled later is the match returned
C20_Witness ==
    /\ Done /\ response.success /\ NoTieAcrossOrientations
    /\ Len(Returned) = 1
    /\ \E i, j \in Pooled :
           /\ i < j
           /\ all_detections[i].rotation # all_detections[j].rotation
           /\ all_detections[i].confidence < all_detections[j].confidence
           /\ MatchOf(1, j)

\* the set of the elements of a list, and of their confidences
Elements(seq) == {seq[i] : i \in 1 .. Len(seq)}
Confidences(set) == {d.confidence : d \in set}

\* C21: the cap step leaves a pool of at most 1000 detections as it is; of a
\* larger pool it leaves exactly 1000 detections, each of them a pooled one
\* and none twice, every one of a confidence (the score after inversion) at
\* least that of every dropped one, in descending order of confidence.
C21_GlobalCap ==
    [][pc = "cap" =>
         LET pool == all_detections
             kept == all_detections'
             dropped == Elements(pool) \ Elements(kept)
         IN  IF Len(pool) <= MaxDetections THEN kept = pool
             ELSE /\ Len(kept) = MaxDetections
                  /\ Elements(kept) \subseteq Elements(pool)
                  /\ Cardinality(Elements(kept)) = MaxDetections
                  /\ Cardinality(dropped) = Len(pool) - MaxDetections
                  /\ \A c \in Confidences(Elements(kept)) :
                         \A e \in Confidences(dropped) : c >= e
                  /\ \A i \in 1 .. Len(kept) - 1 :
                         kept[i].confidence >= kept[i + 1].confidence]_vars

\* 1024 windows met the threshold and 1000 are left, among them the last
\* window of the last scan, which scored above the others, and a window that
\* scored less
C21_Witness ==
    /\ pc = "cluster"
    /\ 4 * img_width * img_height > MaxDetections
    /\ Len(all_detections) = MaxDetections
    /\ \E i, j \in 1 .. Len(all_detections) :
           /\ all_detections[i].rotation = 270
           /\ all_detections[i].x = img_width - 1
           /\ all_detections[i].y = img_height - 1
           /\ all_detections[i].confidence > all_detections[j].confidence

\* the origins of the windows of an rw x rh template in the image
Origins(rw, rh) ==
    {<<x, y>> : x \in 0 .. img_width - rw, y \in 0 .. img_height - rh}
\* the size of the template turned by rot: width and height change places at
\* 90 and 270 degrees
TurnedWidth(rot) == IF rot \in {90, 270} THEN template_height ELSE template_width
TurnedHeight(rot) == IF rot \in {90, 270} THEN template_width ELSE template_height
\* what a step appended to the pool
Appended == SubSeq(all_detections', Len(all_detections) + 1, Len(all_detections'))

\* C22: a scan that returns leaves the detections pooled before it as they
\* are and appends exactly one detection per window of its orientation whose
\* final score is at least the threshold, none for a window that scores less;
\* each carries the window's origin and score, the size of the turned
\* template and the orientation.
C22_ScannerCompleteAndSound ==
    [][(pc = "scan" /\ pc' \in {"scan", "cap"}) =>
         LET rot == Rotations[rotation]
             new == Appended
         IN  /\ SubSeq(all_detections', 1, Len(all_detections)) = all_detections
             /\ DOMAIN result' = Origins(TurnedWidth(rot), TurnedHeight(rot))
             /\ \A p \in DOMAIN result' :
                    Cardinality({i \in 1 .. Len(new) :
                                    new[i].x = p[1] /\ new[i].y = p[2]})
                        = IF result'[p] >= confidence_threshold THEN 1 ELSE 0
             /\ \A i \in 1 .. Len(new) :
                    /\ <<new[i].x, new[i].y>> \in DOMAIN result'
                    /\ new[i].confidence = result'[<<new[i].x, new[i].y>>]
                    /\ new[i].width = TurnedWidth(rot)
                    /\ new[i].height = TurnedHeight(rot)
                    /\ new[i].rotation = rot]_vars

\* the four scans of a template that is not square returned; the pool holds
\* a window that scored exactly the threshold, windows of a quarter-turned
\* and of an unturned template, and the last scan left out a window that
\* scored less than the threshold
C22_Witness ==
    /\ pc = "cap" /\ template_width # template_height
    /\ \E i, j, k \in 1 .. Len(all_detections) :
           /\ all_detections[i].confidence = confidence_threshold
           /\ all_detections[j].rotation = 90
           /\ all_detections[j].width = template_height
           /\ all_detections[k].rotation = 180
    /\ \E p \in DOMAIN result :
           /\ result[p] < confidence_threshold
           /\ \A i \in 1 .. Len(all_detections) :
                  all_detections[i].rotation = 270 =>
                      <<all_detections[i].x, all_detections[i].y>> # p

\* the caller selected the normalized squared difference
SquaredDifference == method \in {"cv2.TM_SQDIFF_NORMED", "TM_SQDIFF_NORMED"}
\* the final score of window p of the scan a step made: 1 - raw score for the
\* squared difference, the raw score otherwise
FinalScore(p) ==
    IF SquaredDifference THEN Scale - raw_result'[p] ELSE raw_result'[p]

\* C23: with the squared-difference method a window is pooled exactly when
\* 1 - raw score >= threshold and its confidence is 1 - raw score; with the
\* other methods it is pooled exactly when raw score >= threshold and its
\* confidence is the raw score.
C23_InversionBeforeThreshold ==
    [][(pc = "scan" /\ pc' \in {"scan", "cap"}) =>
         LET new == Appended
         IN  /\ DOMAIN raw_result' = DOMAIN result'
             /\ \A p \in DOMAIN raw_result' :
                    /\ result'[p] = FinalScore(p)
                    /\ (\E i \in 1 .. Len(new) : <<new[i].x, new[i].y>> = p)
                           <=> FinalScore(p) >= confidence_threshold
                    /\ \A i \in 1 .. Len(new) :
                           <<new[i].x, new[i].y>> = p =>
                               new[i].confidence = FinalScore(p)]_vars

\* a squared-difference scan pooled a window whose raw score is below the
\* threshold, with 1 - raw score as its confidence, and left out a window
\* whose raw score is above the threshold
C23_Witness ==
    /\ pc = "cap" /\ SquaredDifference
    /\ \E p, q \in DOMAIN raw_result :
           /\ raw_result[p] < confidence_threshold
           /\ \E i \in 1 .. Len(all_detections) :
                  /\ all_detections[i].rotation = 270
                  /\ <<all_detections[i].x, all_detections[i].y>> = p
                  /\ all_detections[i].confidence = Scale - raw_result[p]
                  /\ all_detections[i].confidence # raw_result[p]
           /\ raw_result[q] > confidence_threshold
           /\ \A i \in 1 .. Len(all_detections) :
                  all_detections[i].rotation = 270 =>
                      <<all_detections[i].x, all_detections[i].y>> # q

\* a step of the reducer (cap, distance pass, overlap pass) is about to run
\* or has run
ReducerStarted ==
    \/ pc \in {"cap", "cluster", "suppress"}
    \/ matches # <<>> \/ filtered_matches # <<>>
    \/ response.success
\* the orientations whose scan has returned and contributed to the pool
Contributed == {Rotations[r] : r \in 1 .. rotation - 1}

\* C24: the cap, the distance pass and the overlap pass run only when the
\* scans of 0, 90, 180 and 270 degrees have all returned; the pool then holds
\* no orientation but these and, of the scan that returned last, every window
\* that met the threshold.
C24_ReducerAfterAllScans ==
    ReducerStarted =>
        /\ Contributed = {0, 90, 180, 270}
        /\ \A i \in 1 .. Len(all_detections) :
               all_detections[i].rotation \in Contributed
        /\ pc = "cap" =>
               \A p \in DOMAIN result :
                   result[p] >= confidence_threshold =>
                       \E i \in 1 .. Len(all_detections) :
                           /\ all_detections[i].rotation = 270
                           /\ <<all_detections[i].x, all_detections[i].y>> = p

\* the reducer has run on a pool to which each of the four orientations
\* contributed a detection, the strongest coming from the last scan
C24_Witness ==
    /\ Done /\ response.success /\ Len(Returned) >= 1
    /\ \A rot \in {0, 90, 180, 270} :
           \E i \in 1 .. Len(all_detections) : all_detections[i].rotation = rot
    /\ Returned[1].rotation = 270

\* no scan has been started: no template was turned, matchTemplate returned
\* nothing and nothing is pooled
NothingScanned ==
    /\ pc \notin {"scan", "cap", "cluster", "suppress"}
    /\ rotation = 1
    /\ rotated_width = 0 /\ rotated_height = 0
    /\ raw_result = <<>> /\ result = <<>>
    /\ all_detections = <<>> /\ matches = <<>> /\ filtered_matches = <<>>
\* the failure of lines 53-78 that the two files call for
FileFailure ==
    IF image_file.status = "missing" THEN "image_not_found"
    ELSE IF template_file.status = "missing" THEN "template_not_found"
    ELSE IF image_file.status = "unreadable" THEN "image_load_failed"
    ELSE "template_load_failed"

\* C25: when the image or the template file is missing or cannot be decoded,
\* no scan of any orientation is ever started and visual_search returns a
\* failure without matches: for a threshold within [0, 1] the failure that
\* names the file, for another threshold the threshold error.
C25_FilesCheckedBeforeScanning ==
    ~BothLoaded =>
        /\ NothingScanned
        /\ Done =>
               /\ ~response.success /\ Returned = <<>>
               /\ response.error =
                      IF ThresholdInRange THEN FileFailure ELSE "threshold"

\* a decodable image and a template file that exists but cannot be decoded:
\* the failure to load the template is returned, nothing scanned
C25_Witness ==
    /\ Done /\ ThresholdInRange
    /\ image_file.status = "ok" /\ template_file.status = "unreadable"
    /\ response.error = "template_load_failed"
    /\ NothingScanned

\* the size of a w x h template after a quarter turn, as the rotator computes it
QuarterTurn(size) == RotatedSize(90, size[1], size[2])

\* C26: the template a scan uses is template_width x template_height at 0
\* and 180 degrees and template_height x template_width at 90 and 270
\* degrees; at 0 degrees it has the size of the template file; and four
\* quarter turns of the size give the size back, two of them the size at 180
\* degrees, three the size at 270 degrees.
C26_OrientedDimensions ==
    [][pc = "scan" =>
         LET rot == Rotations[rotation]
             size == <<template_width, template_height>>
         IN  /\ rot \in {0, 180} =>
                    /\ rotated_width' = template_width
                    /\ rotated_height' = template_height
             /\ rot \in {90, 270} =>
                    /\ rotated_width' = template_height
                    /\ rotated_height' = template_width
             /\ rot = 0 =>
                    /\ rotated_width' = template_file.width
                    /\ rotated_height' = template_file.height
             /\ QuarterTurn(QuarterTurn(QuarterTurn(QuarterTurn(size)))) = size
             /\ QuarterTurn(QuarterTurn(size))
                    = RotatedSize(180, template_width, template_height)
             /\ QuarterTurn(QuarterTurn(QuarterTurn(size)))
                    = RotatedSize(270, template_width, template_height)]_vars

\* the four scans of a template that is wider than tall returned, the last
\* with the template taller than wide
C26_Witness ==
    /\ pc = "cap" /\ template_width > template_height
    /\ rotated_width = template_height /\ rotated_height = template_width
    /\ \E i, j \in 1 .. Len(all_detections) :
           /\ all_detections[i].rotation = 180
           /\ all_detections[i].width = template_width
           /\ all_detections[j].rotation = 270
           /\ all_detections[j].width = template_height

\* pooled window k has the highest confidence of the pool and is the first
\* pooled of those that have it
Best(k) ==
    \A j \in Pooled :
        \/ all_detections[j].confidence < all_detections[k].confidence
        \/ all_detections[j].confidence = all_detections[k].confidence /\ j >= k
\* the response is a success whose first match is the match of window k
FirstMatchIs(k) ==
    /\ response.success /\ Len(Returned) >= 1 /\ response.totalMatches >= 1
    /\ MatchOf(1, k)
    /\ Returned[1].confidence = Round4(all_detections[k].confidence)
\* the sort-and-cut of the cap, cutting after one detection, leaves window k
CutKeeps(k) == TopDetections(all_detections, 1) = <<all_detections[k]>>

\* C27 as stated: when some window of some orientation met the threshold, the
\* response is not empty and its first match is the best pooled detection,
\* the earliest pooled among those of equal confidence.
C27_Original ==
    (Done /\ all_detections # <<>>) =>
        \A k \in Pooled : Best(k) => FirstMatchIs(k) /\ CutKeeps(k)

\* C27 amended: the same when the scans of the four orientations all
\* returned; and the cap's sort-and-cut keeps that detection however short it
\* cuts.
C27_BestDetectionFirst ==
    (Done /\ ScansCompleted /\ all_detections # <<>>) =>
        \A k \in Pooled : Best(k) => FirstMatchIs(k) /\ CutKeeps(k)

\* the best detection was pooled after a weaker one that is near it and
\* before one of equal confidence, and it is the first match
C27_Witness ==
    /\ Done /\ ScansCompleted
    /\ \E j, k, l \in Pooled :
           /\ j < k /\ k < l
           /\ Best(k) /\ FirstMatchIs(k)
           /\ all_detections[j].confidence < all_detections[k].confidence
           /\ Near(j, k)
           /\ all_detections[l].confidence = all_detections[k].confidence

\* 25 * (squared distance) of the top-left corners of returned matches i, j
Spacing25(i, j) ==
    LET dx == Box(i).x - Box(j).x
        dy == Box(i).y - Box(j).y
    IN  25 * (dx * dx + dy * dy)

\* C28: the top-left corners of any two matches of a response are at least
\* 0.8 * max(template width, template height) apart, whatever the
\* orientations of the two; every match has that same longer side.
C28_MatchesSpacedApart ==
    (Done /\ response.success) =>
        /\ \A i \in 1 .. Len(Returned) :
               Greater(Box(i).width, Box(i).height) = LongSide
        /\ \A i, j \in 1 .. Len(Returned) :
               i # j => Spacing25(i, j) >= 16 * LongSide * LongSide

\* two matches of a template that is not square, one unturned and one
\* quarter-turned, whose rectangles intersect
C28_Witness ==
    /\ Done /\ response.success
    /\ template_file.width # template_file.height
    /\ \E i, j \in 1 .. Len(Returned) :
           /\ Returned[i].rotation = 0 /\ Returned[j].rotation = 90
           /\ Intersection(i, j) > 0
           /\ Spacing25(i, j) < 25 * LongSide * LongSide

\* pooled window i is returned as a match
ReturnedAsMatch(i) == \E m \in 1 .. Len(Returned) : MatchOf(m, i)
\* the origin of pooled window i is nearer than 0.8 * max(width, height) to
\* the top-left corner of returned match m
Claims(m, i) ==
    LET dx == all_detections[i].x - Box(m).x
        dy == all_detections[i].y - Box(m).y
    IN  25 * (dx * dx + dy * dy) < 16 * LongSide * LongSide
\* the pooled window that returned match m was made from
WindowOf(m) == CHOOSE i \in Pooled : MatchOf(m, i)

\* C29: every pooled detection that is not returned as a match lies nearer
\* than 0.8 * max(width, height) to the top-left corner of a returned match
\* whose confidence is at least the detection's own.
C29_Coverage ==
    (Done /\ response.success) =>
        \A i \in Pooled :
            ~ReturnedAsMatch(i) =>
                \E m \in 1 .. Len(Returned) :
                    /\ Claims(m, i)
                    /\ Returned[m].confidence >= all_detections[i].confidence

\* The same with the confidence each match had before round(confidence, 4).
C29_CoverageBeforeRounding ==
    (Done /\ response.success) =>
        \A i \in Pooled :
            ~ReturnedAsMatch(i) =>
                \E m \in 1 .. Len(Returned) :
                    /\ Claims(m, i)
                    /\ all_detections[WindowOf(m)].confidence
                           >= all_detections[i].confidence

\* the method the caller named is not a key of method_map
Unrecognized ==
    method \notin {"unset",
                   "cv2.TM_CCOEFF_NORMED", "cv2.TM_CCORR_NORMED",
                   "cv2.TM_SQDIFF_NORMED", "TM_CCOEFF_NORMED",
                   "TM_CCORR_NORMED", "TM_SQDIFF_NORMED"}
\* the template fits the image, turned or not
FitsEveryOrientation ==
    /\ Greater(template_file.width, template_file.height) <= image_file.width
    /\ Greater(template_file.width, template_file.height) <= image_file.height

\* C30: with a method name that is not recognized the search runs with
\* TM_CCOEFF_NORMED, the method a request for "cv2.TM_CCOEFF_NORMED" runs
\* with, the only thing through which the name acts: scores are not
\* inverted, pooled confidences are raw scores, and the run fails only for
\* the threshold, the files or the template's size, never for the method.
C30_UnrecognizedMethodFallsBack ==
    Unrecognized =>
        /\ match_method \in {"unset", "TM_CCOEFF_NORMED"}
        /\ pc \in {"scan", "cap", "cluster", "suppress"} =>
               match_method = "TM_CCOEFF_NORMED"
        /\ result = raw_result
        /\ pc = "cap" =>
               \A p \in DOMAIN raw_result :
                   raw_result[p] >= confidence_threshold <=>
                       \E i \in Pooled :
                           /\ all_detections[i].rotation = 270
                           /\ <<all_detections[i].x, all_detections[i].y>> = p
                           /\ all_detections[i].confidence = raw_result[p]
        /\ (Done /\ ThresholdInRange /\ BothLoaded /\ FitsEveryOrientation) =>
               response.success /\ response.error = "none"
        /\ (Done /\ ~response.success) =>
               response.error \in {"threshold", "image_not_found",
                                   "template_not_found", "image_load_failed",
                                   "template_load_failed", "template_too_large",
                                   "visual_search_failed"}

\* a search with an unrecognized method name returned a match whose
\* confidence is the raw score of its window
C30_Witness ==
    /\ Done /\ Unrecognized /\ response.success
    /\ match_method = "TM_CCOEFF_NORMED"
    /\ Len(Returned) >= 1 /\ Returned[1].rotation = 270
    /\ Returned[1].confidence = Scale
    /\ raw_result[<<Box(1).x, Box(1).y>>] = Scale

====
